---- MODULE Spec2Model ----
(***************************************************************************)
(* State-machine model of the ioredis instrumentation                      *)
(* (packages/instrumentation-ioredis/src/instrumentation.ts, utils.ts).    *)
(*                                                                         *)
(* The instrumentation wraps two entry points of the client prototype,     *)
(* sendCommand and connect.  The model keeps the instance fields           *)
(* (_config, _semconvStability), the environment token, the wrapping of    *)
(* the two entry points, the spans the tracer has handed out, and the      *)
(* commands of the client with the callbacks currently installed in their  *)
(* resolve / reject slots.                                                 *)
(***************************************************************************)
EXTENDS Integers, Sequences, FiniteSets, TLC

VARIABLES
    env,               \* process.env.OTEL_SEMCONV_STABILITY_OPT_IN
    semconvStability,  \* this._semconvStability
    config,            \* this._config (InstrumentationBase)
    proto,             \* layers of wrapping on prototype.sendCommand / connect
    spans,             \* spans started through instrumentation.tracer, in order
    cmds,              \* the client's command objects
    lastCall           \* what the latest operation did, as its caller saw it

vars == <<env, semconvStability, config, proto, spans, cmds, lastCall>>

----------------------------------------------------------------------------
(* Bounds of the model *)

\* The spans the tracer may hand out in a run of the tracing specification
MaxSpans == 2
\* and in a run of the set-up specification.
MaxSetupSpans == 1

----------------------------------------------------------------------------
(* Values *)

Absent == "absent"

\* SemconvStability of @opentelemetry/instrumentation: a two-bit set.
STABLE == 1
OLD == 2
DUPLICATE == 3

HasFlag(mode, flag) == (mode \div flag) % 2 = 1

\* Tokens the environment variable is drawn from.
EnvTokens == {"unset", "http", "database", "database/dup"}

\* semconvStabilityFromStr('database', token)
semconvStabilityFromStr(token) ==
    IF token = "database/dup" THEN DUPLICATE
    ELSE IF token = "database" THEN STABLE
    ELSE OLD

\* Error values a failing operation may carry; "null" stands for the falsy ones.
Errors == {"Error", "null"}
Results == {"OK"}
Truthy(v) == v # "null"

\* this.options of the client the call is made on
ClientOptions == {[host |-> "localhost", port |-> "6379"]}

\* The instrumentation keeps nothing that two command objects share (each wrapper
\* closes over its own span), so the model follows one command object, which the
\* client may dispatch more than once.
CmdIds == {1}
CmdName(c) == IF c = 1 THEN "get" ELSE "set"

----------------------------------------------------------------------------
(* Configuration *)

ConfigFields == {"requireParentSpan", "dbStatementSerializer", "requestHook", "responseHook"}

\* The configuration objects a caller may pass (a missing key is Absent).
SuppliedConfigs ==
    [requireParentSpan : {Absent, "true", "false"},
     dbStatementSerializer : {Absent, "fn"},
     requestHook : {Absent, "fn"},
     responseHook : {Absent, "fn"}]

DEFAULT_CONFIG ==
    [requireParentSpan |-> "true",
     dbStatementSerializer |-> Absent,
     requestHook |-> Absent,
     responseHook |-> Absent]

\* { ...base, ...over }
Spread(base, over) ==
    [f \in ConfigFields |-> IF over[f] # Absent THEN over[f] ELSE base[f]]

----------------------------------------------------------------------------
(* Spans and attributes (utils.ts) *)

NoAttributes == [k \in {} |-> "undefined"]

\* Object.assign(target, source): the keys of source override those of target.
Assign(target, source) == source @@ target

\* `redis://${host}:${port}`
ConnectionString(host, port) ==
    IF host = "localhost" /\ port = "6379" THEN "redis://localhost:6379"
    ELSE "redis://undefined:undefined"

\* Variant: each group is emitted for its own mode alone, not for the dual mode.
getClientAttributesExact(host, port, mode) ==
    IF mode = OLD
    THEN ("db.system" :> "redis") @@ ("net.peer.name" :> host)
         @@ ("net.peer.port" :> port)
         @@ ("db.connection_string" :> ConnectionString(host, port))
    ELSE IF mode = STABLE
    THEN ("db.system.name" :> "redis") @@ ("server.address" :> host)
         @@ ("server.port" :> port)
    ELSE NoAttributes

getClientAttributes(host, port, mode) ==
    LET a0 == NoAttributes
        a1 == IF HasFlag(mode, OLD)
              THEN Assign(a0, ("db.system" :> "redis")
                              @@ ("net.peer.name" :> host)
                              @@ ("net.peer.port" :> port)
                              @@ ("db.connection_string" :> ConnectionString(host, port)))
              ELSE a0
        a2 == IF HasFlag(mode, STABLE)
              THEN Assign(a1, ("db.system.name" :> "redis")
                              @@ ("server.address" :> host)
                              @@ ("server.port" :> port))
              ELSE a1
    IN a2

\* tracer.startSpan(name, {kind: CLIENT, attributes}): the span as the tracer holds
\* it while it lives. What it was started with is kept with the call that started it.
NewSpan(op, c) ==
    [op |-> op, cmd |-> c, ends |-> 0, status |-> "UNSET", exceptions |-> 0]

StartSpanArgs(name, attributes) ==
    [name |-> name, kind |-> "CLIENT", attributes |-> attributes]

\* endSpan(span, err)
endSpan(ss, s, err) ==
    [ss EXCEPT ![s] =
        [@ EXCEPT !.exceptions = IF Truthy(err) THEN @ + 1 ELSE @,
                  !.status = IF Truthy(err) THEN "ERROR" ELSE @,
                  !.ends = @ + 1]]

----------------------------------------------------------------------------
(* Commands *)

\* A command the client has not dispatched yet: both slots hold the client's own
\* callbacks (an empty stack of wrappers above them).
NewCmd ==
    [state |-> "new", resolve |-> <<>>, reject |-> <<>>, seen |-> <<>>]

\* The spans of command c that satisfy P at this moment.
OpenSpans(ss, c) == {s \in DOMAIN ss : ss[s].cmd = c /\ ss[s].ends = 0}
UnmarkedSpans(ss, c) ==
    {s \in DOMAIN ss : ss[s].cmd = c /\ ~(ss[s].status = "ERROR" /\ ss[s].exceptions > 0)}

\* What an operation's caller can see of it.
NoCall ==
    [op |-> "none", arg |-> "none", cmd |-> 0, amb |-> FALSE,
     origCalls |-> 0, origArg |-> "none",
     origOut |-> <<"none", "none">>, out |-> <<"none", "none">>,
     started |-> <<>>, statement |-> "none", wrapped |-> 0,
     requestHooks |-> 0, responseHooks |-> 0, requestThrew |-> {}, responseThrew |-> {},
     settled |-> <<"none", "none">>, unwrapped |-> 0,
     cfg |-> DEFAULT_CONFIG, module |-> "none"]

----------------------------------------------------------------------------
(* The callbacks in a command's resolve / reject slot *)

Front(q) == SubSeq(q, 1, Len(q) - 1)

RECURSIVE CallSlot(_, _, _, _, _, _)
RECURSIVE Invoke(_, _, _, _)
RECURSIVE InvokeConnect(_, _, _)

\* The client's own callback (the command's promise): it observes the value, and the
\* model notes which spans of the command are open or carry no error at that moment.
ClientCallback(st, c, which, v) ==
    [st EXCEPT !.cmds[c].seen =
        Append(@, [cb |-> which, value |-> v,
                   open |-> OpenSpans(st.spans, c),
                   unmarked |-> UnmarkedSpans(st.spans, c)])]

\* Variant: the exception of execute is thrown on whatever the third argument.
safeExecuteRethrows(threw, preventThrowingError) ==
    threw

\* safeExecuteInTheMiddle(execute, onFinish, preventThrowingError): TRUE when the
\* exception execute threw leaves the call (onFinish only logs it).
safeExecuteInTheMiddle(threw, preventThrowingError) ==
    threw /\ ~preventThrowingError

\* An exception leaving a hook call, as the enclosing function's outcome.
HookError == <<"throw", "hookError">>

\* safeExecuteInTheMiddle(() => config.responseHook?.(span, ...), onFinish, true):
\* the hook of the configuration captured at dispatch runs.
RunResponseHook(st, w, hookThrows) ==
    IF w.responseHook = Absent THEN st
    ELSE [st EXCEPT !.call.responseHooks = @ + 1,
                    !.call.responseThrew = IF hookThrows THEN @ \cup {w.span} ELSE @,
                    !.ret = IF safeExecuteInTheMiddle(hookThrows, TRUE) THEN HookError ELSE @]

\* cmd.resolve = function (result) { responseHook; endSpan(span, null); origResolve(result) }
\* chain is the slot's wrappers, the one being run last; below it is origResolve.
ResolveWrapper(st, c, chain, result, hookThrows) ==
    LET w == chain[Len(chain)]
        st1 == RunResponseHook(st, w, hookThrows)
        st2 == [st1 EXCEPT !.spans = endSpan(@, w.span, "null")]
    IN IF st1.ret = HookError THEN st1
       ELSE CallSlot(st2, c, "resolve", Front(chain), result, hookThrows)

\* Variant: the failure wrapper closes the span and forgets origReject.
RejectWrapperNoForward(st, c, chain, err, hookThrows) ==
    [st EXCEPT !.spans = endSpan(@, chain[Len(chain)].span, err)]

\* cmd.reject = function (err) { endSpan(span, err); origReject(err) }
RejectWrapper(st, c, chain, err, hookThrows) ==
    LET w == chain[Len(chain)]
        st1 == [st EXCEPT !.spans = endSpan(@, w.span, err)]
    IN CallSlot(st1, c, "reject", Front(chain), err, hookThrows)

\* A call of whatever function sits in the slot.
CallSlot(st, c, which, chain, v, hookThrows) ==
    IF chain = <<>> THEN ClientCallback(st, c, which, v)
    ELSE IF which = "resolve" THEN ResolveWrapper(st, c, chain, v, hookThrows)
    ELSE RejectWrapper(st, c, chain, v, hookThrows)

----------------------------------------------------------------------------
(* sendCommand *)

\* What the client's own sendCommand may do with a call: return the command's promise
\* with the command in flight, throw, or settle the command through its current slots
\* before returning (ioredis rejects at once when the connection has ended).
OrigBehaviours ==
    {<<"return", "promise">>}
    \cup {<<"throw", e>> : e \in Errors}
    \cup {<<"resolve", r>> : r \in Results}
    \cup {<<"reject", e>> : e \in Errors}

SendInputs ==
    [opts : ClientOptions, amb : BOOLEAN, orig : OrigBehaviours,
     requestHookThrows : BOOLEAN, responseHookThrows : BOOLEAN,
     serializerNull : BOOLEAN]

\* original.apply(this, arguments) at the bottom of the wrapping
OriginalSendCommand(st, arg, in) ==
    LET c == arg.cmd
        k == in.orig[1]
        st1 == [st EXCEPT !.call.origCalls = @ + 1,
                          !.call.origArg = arg.kind,
                          !.call.origOut = IF k = "throw" THEN in.orig
                                           ELSE <<"return", "promise">>,
                          !.ret = IF k = "throw" THEN in.orig
                                  ELSE <<"return", "promise">>]
    IN IF arg.kind # "cmd" \/ k = "throw" THEN st1
       ELSE IF k = "return" THEN [st1 EXCEPT !.cmds[c].state = "pending"]
       ELSE LET st2 == [st1 EXCEPT !.call.settled = in.orig]
            IN [CallSlot(st2, c, k, st2.cmds[c][k], in.orig[2], in.responseHookThrows)
                   EXCEPT !.cmds[c].state = "settled"]

\* defaultDbStatementSerializer(cmd.name, cmd.args)
DefaultStatement(c) == IF c = 1 THEN "get key" ELSE "set key [1 other arguments]"

\* dbStatementSerializer(cmd.name, cmd.args): the default always gives a string,
\* a configured function gives a string or null.
dbStatement(cfg, c, in) ==
    IF cfg.dbStatementSerializer = Absent THEN DefaultStatement(c)
    ELSE IF in.serializerNull THEN "null"
    ELSE "custom"

\* The attributes of a command span (instrumentation.ts 139-157).
CommandAttributes(cfg, mode, c, in) ==
    LET a0 == getClientAttributes(in.opts.host, in.opts.port, mode)
        a1 == IF HasFlag(mode, STABLE)
              THEN Assign(a0, "db.operation.name" :> CmdName(c)) ELSE a0
        stmt == dbStatement(cfg, c, in)
        a2 == IF stmt # "null" /\ HasFlag(mode, OLD)
              THEN Assign(a1, "db.statement" :> stmt) ELSE a1
        a3 == IF stmt # "null" /\ HasFlag(mode, STABLE)
              THEN Assign(a2, "db.query.text" :> stmt) ELSE a2
    IN a3

\* safeExecuteInTheMiddle(() => requestHook(span, {...}), onFinish, true)
RunRequestHook(st, cfg, s, in) ==
    IF cfg.requestHook = Absent THEN st
    ELSE [st EXCEPT !.call.requestHooks = @ + 1,
                    !.call.requestThrew = IF in.requestHookThrows THEN @ \cup {s} ELSE @,
                    !.ret = IF safeExecuteInTheMiddle(in.requestHookThrows, TRUE)
                            THEN HookError ELSE @]

\* Variant: the new wrappers are put over the client's own callbacks, not over
\* whatever the slots hold.
SubstituteCallbacksReplace(st, c, s, cfg) ==
    [st EXCEPT !.cmds[c].resolve = <<[span |-> s, responseHook |-> cfg.responseHook]>>,
               !.cmds[c].reject = <<[span |-> s, responseHook |-> cfg.responseHook]>>,
               !.call.wrapped = @ + 1]

\* The callback substitution after original.apply returned (185-206).
SubstituteCallbacks(st, c, s, cfg) ==
    [st EXCEPT !.cmds[c].resolve = Append(@, [span |-> s, responseHook |-> cfg.responseHook]),
               !.cmds[c].reject = Append(@, [span |-> s, responseHook |-> cfg.responseHook]),
               !.call.wrapped = @ + 1]

\* try { result = original.apply(...); substitute; return result }
\* catch (error) { endSpan(span, error); throw error }
TracedDispatch(n, st, arg, in, s, cfg) ==
    LET st1 == Invoke(n - 1, st, arg, in)
    IN IF st1.ret[1] = "throw"
       THEN [st1 EXCEPT !.spans = endSpan(@, s, st1.ret[2])]
       ELSE SubstituteCallbacks(st1, arg.cmd, s, cfg)

\* typeof cmd, for the kinds of first argument: null is an "object" to typeof.
TypeOf(kind) ==
    IF kind \in {"cmd", "null"} THEN "object"
    ELSE IF kind = "none" THEN "undefined"
    ELSE "string"

\* Guard 1: arguments.length < 1 || typeof cmd !== 'object'
NotACommand(arg) == arg.kind = "none" \/ TypeOf(arg.kind) # "object"

\* const operationName = cmd.name throws a TypeError when cmd is null.
NameError == <<"throw", "TypeError">>

\* Variant: guard 2 tests for a parent span that is present.
RequiresPresentParent(cfg, amb) == cfg.requireParentSpan = "true" /\ amb

\* Guard 2: config.requireParentSpan === true && hasNoParentSpan
RequiresMissingParent(cfg, amb) == cfg.requireParentSpan = "true" /\ ~amb

\* The function _traceSendCommand returns, as layer n of the wrapping.
TraceSendCommand(n, st, arg, in) ==
    IF NotACommand(arg) THEN Invoke(n - 1, st, arg, in)
    ELSE IF RequiresMissingParent(config, in.amb) THEN Invoke(n - 1, st, arg, in)
    ELSE IF arg.kind = "null" THEN [st EXCEPT !.ret = NameError]
    ELSE LET c == arg.cmd
             s == Len(st.spans) + 1
             args == StartSpanArgs(CmdName(c),
                                   CommandAttributes(config, semconvStability, c, in))
             st1 == [st EXCEPT !.spans = Append(@, NewSpan("sendCommand", c)),
                               !.call.started = Append(@, args),
                               !.call.statement = dbStatement(config, c, in)]
             st2 == RunRequestHook(st1, config, s, in)
         IN IF st2.ret = HookError THEN st2
            ELSE TracedDispatch(n, st2, arg, in, s, config)

\* A call of prototype.sendCommand under n layers of wrapping.
Invoke(n, st, arg, in) ==
    IF n = 0 THEN OriginalSendCommand(st, arg, in)
    ELSE TraceSendCommand(n, st, arg, in)

----------------------------------------------------------------------------
(* connect *)

ConnectBehaviours == {<<"return", "client">>} \cup {<<"throw", e>> : e \in Errors}

ConnectInputs == [opts : ClientOptions, amb : BOOLEAN, orig : ConnectBehaviours]

\* original.apply(this, arguments) at the bottom of the wrapping
OriginalConnect(st, in) ==
    [st EXCEPT !.call.origCalls = @ + 1,
               !.call.origOut = in.orig,
               !.ret = in.orig]

\* The attributes of a connect span (instrumentation.ts 227-239).
ConnectAttributes(mode, in) ==
    LET a0 == getClientAttributes(in.opts.host, in.opts.port, mode)
        a1 == IF HasFlag(mode, OLD)
              THEN Assign(a0, "db.statement" :> "connect") ELSE a0
        a2 == IF HasFlag(mode, STABLE)
              THEN Assign(a1, "db.query.text" :> "connect") ELSE a1
    IN a2

\* try { client = original.apply(...); endSpan(span, null); return client }
\* catch (error) { endSpan(span, error); throw error }
TracedConnect(n, st, in, s) ==
    LET st1 == InvokeConnect(n - 1, st, in)
    IN IF st1.ret[1] = "throw"
       THEN [st1 EXCEPT !.spans = endSpan(@, s, st1.ret[2])]
       ELSE [st1 EXCEPT !.spans = endSpan(@, s, "null")]

\* The function _traceConnection returns, as layer n of the wrapping.
TraceConnection(n, st, in) ==
    IF RequiresMissingParent(config, in.amb) THEN InvokeConnect(n - 1, st, in)
    ELSE LET s == Len(st.spans) + 1
             args == StartSpanArgs("connect", ConnectAttributes(semconvStability, in))
             st1 == [st EXCEPT !.spans = Append(@, NewSpan("connect", 0)),
                               !.call.started = Append(@, args)]
         IN TracedConnect(n, st1, in, s)

\* A call of prototype.connect under n layers of wrapping.
InvokeConnect(n, st, in) ==
    IF n = 0 THEN OriginalConnect(st, in)
    ELSE TraceConnection(n, st, in)

----------------------------------------------------------------------------
(* Registration (init) *)

\* isWrapped(f)
isWrapped(layers) == layers > 0

\* this._wrap(prototype, name, patch): one more layer around the current function
Wrap(layers) == layers + 1

\* this._unwrap(prototype, name): the current function's original is put back;
\* a function that is not wrapped is left as it is.
Unwrap(layers) == IF layers > 0 THEN layers - 1 ELSE layers

\* Variant: the entry point is wrapped without a look at its current state.
PatchEntryNoGuard(layers) == Wrap(layers)

\* The onRequire callback of the module definition, on one entry point.
PatchEntry(layers) ==
    Wrap(IF isWrapped(layers) THEN Unwrap(layers) ELSE layers)

\* The onUnload callback of the module definition, on one entry point.
UnpatchEntry(module, layers) ==
    IF module = "undefined" THEN layers ELSE Unwrap(layers)

----------------------------------------------------------------------------
(* The state machine *)

\* new IORedisInstrumentation(cfg), with the environment holding some token
Constructed ==
    /\ env \in EnvTokens
    /\ semconvStability = semconvStabilityFromStr(env)
    /\ \E cfg \in SuppliedConfigs : config = Spread(DEFAULT_CONFIG, cfg)
    /\ spans = <<>>
    /\ cmds = [c \in CmdIds |-> NewCmd]
    /\ lastCall = NoCall

\* Variant: the supplied configuration is merged onto the current one.
SetConfigOntoCurrent(cfg) ==
    /\ config' = Spread(config, cfg)
    /\ semconvStability' = semconvStabilityFromStr(env)
    /\ lastCall' = [NoCall EXCEPT !.op = "setConfig", !.cfg = cfg]
    /\ UNCHANGED <<env, proto, spans, cmds>>

\* setConfig(cfg)
SetConfig(cfg) ==
    /\ config' = Spread(DEFAULT_CONFIG, cfg)
    /\ semconvStability' = semconvStabilityFromStr(env)
    /\ lastCall' = [NoCall EXCEPT !.op = "setConfig", !.cfg = cfg]
    /\ UNCHANGED <<env, proto, spans, cmds>>

\* The process environment is changed by the application.
SetEnv(token) ==
    /\ token # env
    /\ env' = token
    /\ lastCall' = [NoCall EXCEPT !.op = "setEnv"]
    /\ UNCHANGED <<semconvStability, config, proto, spans, cmds>>

\* The module is loaded: onRequire
Load ==
    /\ proto' = [sendCommand |-> PatchEntry(proto.sendCommand),
                 connect |-> PatchEntry(proto.connect)]
    /\ lastCall' = [NoCall EXCEPT !.op = "load", !.module = "defined",
                                  !.unwrapped = Cardinality({e \in DOMAIN proto :
                                                               isWrapped(proto[e])})]
    /\ UNCHANGED <<env, semconvStability, config, spans, cmds>>

\* The instrumentation is disabled: onUnload(module)
Unload(module) ==
    /\ proto' = [sendCommand |-> UnpatchEntry(module, proto.sendCommand),
                 connect |-> UnpatchEntry(module, proto.connect)]
    /\ lastCall' = [NoCall EXCEPT !.op = "unload", !.module = module,
                                  !.unwrapped = Cardinality({e \in DOMAIN proto :
                                      proto[e] # UnpatchEntry(module, proto[e])})]
    /\ UNCHANGED <<env, semconvStability, config, spans, cmds>>

\* Only a hook that is configured can throw.
HasResponseHook(chain) == \E i \in DOMAIN chain : chain[i].responseHook # Absent

\* The arguments a sendCommand call may carry: none, a non-object (a string, a number,
\* undefined), null, or a command that has not settled (a fresh one, or a queued one
\* the client dispatches again).
SendArgs ==
    {[kind |-> k, cmd |-> 0] : k \in {"none", "nonObject", "null"}}
    \cup {[kind |-> "cmd", cmd |-> c] : c \in {d \in CmdIds :
            /\ cmds[d].state \in {"new", "pending"}
            /\ \A e \in 1..(d - 1) : cmds[e].state # "new"}}

\* client.sendCommand(arg)
SendCommand(arg, in) ==
    /\ Len(spans) + proto.sendCommand <= MaxSpans
    /\ arg.kind = "cmd" \/ in.orig[1] \in {"return", "throw"}
    /\ in.requestHookThrows => config.requestHook # Absent
    /\ in.serializerNull => config.dbStatementSerializer # Absent
    /\ in.responseHookThrows => /\ arg.kind = "cmd"
                                /\ in.orig[1] = "resolve"
                                /\ HasResponseHook(cmds[arg.cmd].resolve)
    /\ LET st0 == [spans |-> spans, cmds |-> cmds, ret |-> <<"none", "none">>,
                   call |-> [NoCall EXCEPT !.op = "sendCommand", !.arg = arg.kind,
                                           !.cmd = arg.cmd, !.amb = in.amb]]
           st == Invoke(proto.sendCommand, st0, arg, in)
       IN /\ spans' = st.spans
          /\ cmds' = st.cmds
          /\ lastCall' = [st.call EXCEPT !.out = st.ret]
    /\ UNCHANGED <<env, semconvStability, config, proto>>

\* client.connect()
Connect(in) ==
    /\ Len(spans) + proto.connect <= MaxSpans
    /\ LET st0 == [spans |-> spans, cmds |-> cmds, ret |-> <<"none", "none">>,
                   call |-> [NoCall EXCEPT !.op = "connect", !.amb = in.amb]]
           st == InvokeConnect(proto.connect, st0, in)
       IN /\ spans' = st.spans
          /\ cmds' = st.cmds
          /\ lastCall' = [st.call EXCEPT !.out = st.ret]
    /\ UNCHANGED <<env, semconvStability, config, proto>>

\* The client settles a command in flight: it calls cmd.resolve(v) or cmd.reject(v).
Settle(c, which, v, hookThrows) ==
    /\ cmds[c].state = "pending"
    /\ hookThrows => which = "resolve" /\ HasResponseHook(cmds[c].resolve)
    /\ LET st0 == [spans |-> spans, cmds |-> cmds, ret |-> <<"return", "undefined">>,
                   call |-> [NoCall EXCEPT !.op = which, !.cmd = c,
                                           !.settled = <<which, v>>]]
           st == CallSlot(st0, c, which, cmds[c][which], v, hookThrows)
       IN /\ spans' = st.spans
          /\ cmds' = [st.cmds EXCEPT ![c].state = "settled"]
          /\ lastCall' = [st.call EXCEPT !.out = st.ret]
    /\ UNCHANGED <<env, semconvStability, config, proto>>

\* Tracing: the instrumentation is constructed and the module has been loaded;
\* the client dispatches, connects and settles commands, and the configuration
\* may be replaced at any moment.
Init ==
    /\ Constructed
    /\ env = "unset"
    /\ config.dbStatementSerializer = Absent
    /\ proto = [sendCommand |-> PatchEntry(0), connect |-> PatchEntry(0)]

\* The configurations that differ in what decides a span's life: the guard and the hooks.
TracingConfigs == {cfg \in SuppliedConfigs : cfg.dbStatementSerializer = Absent}

Next ==
    \/ \E cfg \in TracingConfigs : SetConfig(cfg)
    \/ \E arg \in SendArgs, in \in SendInputs : SendCommand(arg, in)
    \/ \E in \in ConnectInputs : Connect(in)
    \/ \E c \in CmdIds, r \in Results, h \in BOOLEAN : Settle(c, "resolve", r, h)
    \/ \E c \in CmdIds, e \in Errors : Settle(c, "reject", e, FALSE)

Spec == Init /\ [][Next]_vars

\* Set-up: the module is loaded and unloaded, the configuration and the
\* environment change, and every call reaches a client that just returns.
InitSetup ==
    /\ Constructed
    /\ proto = [sendCommand |-> 0, connect |-> 0]

PlainSendInputs == {in \in SendInputs : in.orig = <<"return", "promise">>}
PlainConnectInputs == {in \in ConnectInputs : in.orig = <<"return", "client">>}

NextSetup ==
    \/ \E cfg \in SuppliedConfigs : SetConfig(cfg)
    \/ \E token \in EnvTokens : SetEnv(token)
    \/ Load
    \/ \E module \in {"undefined", "defined"} : Unload(module)
    \/ \E arg \in SendArgs, in \in PlainSendInputs :
          Len(spans) < MaxSetupSpans /\ SendCommand(arg, in)
    \/ \E in \in PlainConnectInputs :
          Len(spans) < MaxSetupSpans /\ Connect(in)

SpecSetup == InitSetup /\ [][NextSetup]_vars

----------------------------------------------------------------------------
(* Properties *)

IsCall == lastCall.op \in {"sendCommand", "connect"}

\* The spans the latest call started (the last ones of the tracer's list).
StartedIds == (Len(spans) - Len(lastCall.started) + 1)..Len(spans)

\* The spans whose callbacks sit in the slots of command c.
WrapperSpans(c) == {cmds[c].resolve[i].span : i \in DOMAIN cmds[c].resolve}

ErrorInfo(s) == spans[s].status = "ERROR" /\ spans[s].exceptions > 0

\* C1: every span the dispatch wrapper or the connect wrapper opens is closed exactly
\* once: a connect span when connect has returned or thrown, a command span when the
\* dispatch threw or the command has settled (also when the client settles it before
\* the dispatch returns); no span is closed twice, and a command dispatched with an
\* ambient span present gets exactly one CLIENT span.
C1_SpanClosedExactlyOnce ==
    /\ \A s \in DOMAIN spans :
        /\ spans[s].ends <= 1
        /\ spans[s].op = "connect" => spans[s].ends = 1
        /\ (spans[s].op = "sendCommand" /\ cmds[spans[s].cmd].state = "settled")
              => spans[s].ends = 1
    /\ (IsCall /\ lastCall.out[1] = "throw") =>
          \A s \in StartedIds : spans[s].ends = 1
    /\ (lastCall.op = "sendCommand" /\ lastCall.arg = "cmd" /\ lastCall.amb) =>
          /\ Len(lastCall.started) = 1
          /\ lastCall.started[1].kind = "CLIENT"
          /\ lastCall.started[1].name = CmdName(lastCall.cmd)

\* C2: a span is closed with error information (exception recorded, status ERROR) if
\* and only if its operation failed: after the failure callback fired, whatever the
\* error value, the command's spans are closed with error information; after a
\* synchronous throw the spans of the call are; after a success none is.
C2_ErrorInfoIffFailed ==
    /\ lastCall.settled[1] = "reject" =>
          \A s \in DOMAIN spans : spans[s].cmd = lastCall.cmd =>
              spans[s].ends = 1 /\ ErrorInfo(s)
    /\ (IsCall /\ lastCall.out[1] = "throw") =>
          \A s \in StartedIds : spans[s].ends = 1 /\ ErrorInfo(s)
    /\ (IsCall /\ lastCall.out[1] = "return" /\ lastCall.settled[1] # "reject") =>
          \A s \in StartedIds : ~ErrorInfo(s)
    /\ lastCall.settled[1] = "resolve" =>
          \A s \in WrapperSpans(lastCall.cmd) : ~ErrorInfo(s)

\* C3: whenever the client's own success or failure callback runs, every span of the
\* command is closed, and on failure it carries ERROR status and the exception.
C3_ClosedBeforeCallback ==
    \A c \in CmdIds : \A i \in DOMAIN cmds[c].seen :
        /\ cmds[c].seen[i].open = {}
        /\ cmds[c].seen[i].cb = "reject" => cmds[c].seen[i].unmarked = {}

\* C4: with requireParentSpan true and no span active, a dispatch or connect call
\* starts no span, runs no request hook, substitutes no callback, calls the original
\* once and gives its caller what the original returned or threw.
C4_NoParentPassThrough ==
    (IsCall /\ config.requireParentSpan = "true" /\ ~lastCall.amb) =>
        /\ lastCall.started = <<>>
        /\ lastCall.requestHooks = 0
        /\ lastCall.wrapped = 0
        /\ lastCall.origCalls = 1
        /\ lastCall.out = lastCall.origOut

C4_Witness ==
    /\ lastCall.op = "sendCommand" /\ lastCall.arg = "cmd"
    /\ config.requireParentSpan = "true" /\ ~lastCall.amb
    /\ config.requestHook # Absent
    /\ lastCall.out[1] = "throw"

\* C5: a dispatch call with no argument or with a first argument that is no object
\* (null, undefined, a string, a number) calls the original once with the same
\* arguments, gives its caller what the original returned or threw and starts no
\* span, whatever the configuration and the context.
C5_NonCommandPassThrough ==
    (lastCall.op = "sendCommand" /\ lastCall.arg \in {"none", "nonObject", "null"}) =>
        /\ lastCall.origCalls = 1
        /\ lastCall.origArg = lastCall.arg
        /\ lastCall.out = lastCall.origOut
        /\ lastCall.started = <<>>
        /\ lastCall.requestHooks = 0
        /\ lastCall.wrapped = 0

\* C6: the outcome of the wrapped operation reaches its receiver unchanged: a call
\* whose original ran returns or throws what the original returned or threw (and the
\* original of a connect call, or of a dispatch of a command, runs exactly once), and
\* a settlement reaches the client's own callback exactly once, the same callback
\* with the same value.
C6_OutcomeUnchanged ==
    /\ IsCall => /\ lastCall.origCalls <= 1
                 /\ lastCall.origCalls = 1 => lastCall.out = lastCall.origOut
                 /\ lastCall.arg # "null" => lastCall.origCalls = 1
    /\ lastCall.settled[1] # "none" =>
          /\ Len(cmds[lastCall.cmd].seen) = 1
          /\ cmds[lastCall.cmd].seen[1].cb = lastCall.settled[1]
          /\ cmds[lastCall.cmd].seen[1].value = lastCall.settled[2]
    /\ \A c \in CmdIds :
          Len(cmds[c].seen) = IF cmds[c].state = "settled" THEN 1 ELSE 0

C6_Witness ==
    /\ lastCall.op = "reject"
    /\ Len(cmds[lastCall.cmd].reject) = 2
    /\ lastCall.settled[2] = "Error"
    /\ Len(cmds[lastCall.cmd].seen) = 1

\* C7: a hook that throws changes nothing else: after a request hook threw, the span
\* exists, the original dispatch was called once and its outcome is the caller's;
\* after a response hook threw, the span is closed exactly once, the client's success
\* callback got the result once, and no hook exception reaches a caller.
C7_HookFailureSuppressed ==
    /\ lastCall.out # HookError
    /\ lastCall.requestThrew # {} =>
          /\ lastCall.requestThrew \subseteq StartedIds
          /\ lastCall.origCalls = 1
          /\ lastCall.out = lastCall.origOut
    /\ lastCall.responseThrew # {} =>
          /\ \A s \in lastCall.responseThrew : spans[s].ends = 1
          /\ Len(cmds[lastCall.cmd].seen) = 1
          /\ cmds[lastCall.cmd].seen[1] .cb = "resolve"
          /\ cmds[lastCall.cmd].seen[1].value = lastCall.settled[2]

C7_Witness ==
    /\ lastCall.op = "sendCommand"
    /\ lastCall.requestThrew # {}
    /\ lastCall.responseThrew # {}

LegacyBaseKeys == {"db.system", "net.peer.name", "net.peer.port", "db.connection_string"}
LegacyKeys == LegacyBaseKeys \cup {"db.statement"}
NewBaseKeys == {"db.system.name", "server.address", "server.port"}
NewKeys(op) ==
    NewBaseKeys \cup {"db.query.text"}
    \cup (IF op = "sendCommand" THEN {"db.operation.name"} ELSE {})

\* C8 as stated: every span's attribute set holds all the legacy keys if OLD is set and
\* none of them otherwise, all the new keys if STABLE is set and none of them
\* otherwise, and is never empty.
C8_KeysFollowMode ==
    IsCall => \A i \in DOMAIN lastCall.started :
        LET keys == DOMAIN lastCall.started[i].attributes
        IN /\ IF HasFlag(semconvStability, OLD)
              THEN LegacyKeys \subseteq keys
              ELSE LegacyKeys \cap keys = {}
           /\ IF HasFlag(semconvStability, STABLE)
              THEN NewKeys(lastCall.op) \subseteq keys
              ELSE NewKeys("sendCommand") \cap keys = {}
           /\ keys # {}

\* C8 as amended: the keys built from host and port follow the mode as stated, and so
\* does db.operation.name on command spans; db.statement and db.query.text follow the
\* mode on connect spans, and on command spans only when the serializer gave a
\* statement: when it gave null, neither is present in any mode.
C8_KeysFollowModeAndStatement ==
    IsCall => \A i \in DOMAIN lastCall.started :
        LET keys == DOMAIN lastCall.started[i].attributes
            old == HasFlag(semconvStability, OLD)
            stable == HasFlag(semconvStability, STABLE)
            hasStatement == lastCall.op = "connect" \/ lastCall.statement # "null"
        IN /\ IF old THEN LegacyBaseKeys \subseteq keys ELSE LegacyBaseKeys \cap keys = {}
           /\ IF stable THEN NewBaseKeys \subseteq keys ELSE NewBaseKeys \cap keys = {}
           /\ "db.operation.name" \in keys <=> (stable /\ lastCall.op = "sendCommand")
           /\ "db.statement" \in keys <=> (old /\ hasStatement)
           /\ "db.query.text" \in keys <=> (stable /\ hasStatement)
           /\ keys \subseteq LegacyKeys \cup NewKeys("sendCommand")
           /\ LegacyKeys \cap NewKeys("sendCommand") = {}
           /\ keys # {}

C8_Witness ==
    /\ lastCall.op = "sendCommand"
    /\ Len(lastCall.started) = 1
    /\ lastCall.statement = "null"
    /\ semconvStability = DUPLICATE
    /\ env # "database/dup"

\* C9: after any load and unload events each entry point carries at most one layer of
\* wrapping, so that a dispatch starts at most one span; both are wrapped after a
\* load, both are the original functions after an unload of a defined module, and an
\* unload of an undefined module changes neither.
C9_AtMostOneLayer ==
    [][/\ proto'.sendCommand <= 1 /\ proto'.connect <= 1
       /\ lastCall'.op = "load" => proto'.sendCommand = 1 /\ proto'.connect = 1
       /\ (lastCall'.op = "unload" /\ lastCall'.module = "defined") =>
             proto'.sendCommand = 0 /\ proto'.connect = 0
       /\ (lastCall'.op = "unload" /\ lastCall'.module = "undefined") => proto' = proto
       /\ lastCall'.op \in {"sendCommand", "connect"} => Len(lastCall'.started) <= 1
       /\ lastCall'.op \notin {"load", "unload"} => proto' = proto]_vars

C9_Witness ==
    /\ lastCall.op = "load"
    /\ lastCall.unwrapped = 2
    /\ spans # <<>>

\* C10 as stated: after setConfig a supplied field has the supplied value, an
\* unsupplied requireParentSpan keeps the value it had, an unsupplied custom field
\* is dropped, and the convention mode is recomputed then and at no other time.
C10_MergeKeepsPrior ==
    [][/\ lastCall'.op = "setConfig" =>
             /\ \A f \in ConfigFields :
                   config'[f] = IF lastCall'.cfg[f] # Absent THEN lastCall'.cfg[f]
                                ELSE IF f = "requireParentSpan" THEN config[f]
                                ELSE Absent
             /\ semconvStability' = semconvStabilityFromStr(env')
       /\ lastCall'.op # "setConfig" =>
             semconvStability' = semconvStability /\ config' = config]_vars

\* C10 as amended: after setConfig a supplied field has the supplied value, an
\* unsupplied requireParentSpan is back at its default, true, whatever it was, an
\* unsupplied custom field is dropped, and the convention mode is recomputed from the
\* environment token then and at no other time.
C10_MergeOntoDefaults ==
    [][/\ lastCall'.op = "setConfig" =>
             /\ \A f \in ConfigFields :
                   config'[f] = IF lastCall'.cfg[f] # Absent THEN lastCall'.cfg[f]
                                ELSE IF f = "requireParentSpan" THEN "true"
                                ELSE Absent
             /\ semconvStability' = semconvStabilityFromStr(env')
       /\ lastCall'.op # "setConfig" =>
             semconvStability' = semconvStability /\ config' = config]_vars

C10_Witness ==
    /\ lastCall.op = "setConfig"
    /\ lastCall.cfg.requireParentSpan = Absent
    /\ lastCall.cfg.requestHook = Absent
    /\ config.requireParentSpan = "true"
    /\ semconvStability = STABLE

\* The spans of the wrappers in a slot, bottom to top.
SlotSpans(chain) == [i \in DOMAIN chain |-> chain[i].span]

\* C11: every dispatch of a command object that has not settled, made with an ambient
\* span present, opens a span of its own and, when the dispatch returns, stacks one
\* more wrapper for that span on both slots of the command, over the wrappers of the
\* earlier dispatches; when the client then settles the command, every span of the
\* command is closed exactly once and the client's own success or failure callback
\* is called exactly once, with the value of the settlement.
C11_RedispatchStacksWrappers ==
    /\ (lastCall.op = "sendCommand" /\ lastCall.arg = "cmd" /\ lastCall.amb) =>
          /\ Len(lastCall.started) = 1
          /\ lastCall.out[1] = "return" =>
                /\ lastCall.wrapped = 1
                /\ cmds[lastCall.cmd].resolve # <<>>
                /\ cmds[lastCall.cmd].resolve[Len(cmds[lastCall.cmd].resolve)].span
                      = Len(spans)
    /\ \A c \in CmdIds :
          /\ SlotSpans(cmds[c].resolve) = SlotSpans(cmds[c].reject)
          /\ \A i, j \in DOMAIN cmds[c].resolve :
                /\ cmds[c].resolve[i].span \in DOMAIN spans
                /\ spans[cmds[c].resolve[i].span].cmd = c
                /\ i < j => cmds[c].resolve[i].span < cmds[c].resolve[j].span
    /\ lastCall.op \in {"resolve", "reject"} =>
          /\ \A s \in DOMAIN spans : spans[s].cmd = lastCall.cmd => spans[s].ends = 1
          /\ Len(cmds[lastCall.cmd].seen) = 1
          /\ cmds[lastCall.cmd].seen[1].cb = lastCall.op
          /\ cmds[lastCall.cmd].seen[1].value = lastCall.settled[2]

C11_Witness ==
    /\ lastCall.op = "resolve"
    /\ Len(cmds[lastCall.cmd].resolve) = 2
    /\ \A s \in WrapperSpans(lastCall.cmd) : spans[s].ends = 1
    /\ Len(cmds[lastCall.cmd].seen) = 1

====
